---- MODULE Spec2Model ----
(***************************************************************************)
(* Model of the figma-query launcher (python/figma_query/cli.py): platform *)
(* identification, binary location and process delegation.                 *)
(*                                                                         *)
(* Every string of the program is a sequence of one-character strings, so  *)
(* that lower-casing, concatenation and suffix tests are computed and not  *)
(* assumed.  A path is a sequence of such components.                      *)
(***************************************************************************)
EXTENDS Integers, Sequences, FiniteSets, TLC

\* ---------------------------------------------------------------- bounds
\* longest forwarded argument list (sys.argv[1:])
MaxArgs == 2

\* child exit codes range over 0..MaxExit and the two codes of ExtraExit
MaxExit == 1

\* terminating signals range over 1..MaxSig
MaxSig == 1

\* ------------------------------------------------------ string literals
S_darwin ==
    <<"d", "a", "r", "w", "i", "n">>

S_linux ==
    <<"l", "i", "n", "u", "x">>

S_windows ==
    <<"w", "i", "n", "d", "o", "w", "s">>

S_x86_64 ==
    <<"x", "8", "6", "_", "6", "4">>

S_amd64 ==
    <<"a", "m", "d", "6", "4">>

S_arm64 ==
    <<"a", "r", "m", "6", "4">>

S_aarch64 ==
    <<"a", "a", "r", "c", "h", "6", "4">>

S_prefix ==
    <<"f", "i", "g", "m", "a", "-", "q", "u", "e", "r", "y", "-">>

S_dash ==
    <<"-">>

S_exe ==
    <<".", "e", "x", "e">>

S_bin ==
    <<"b", "i", "n">>

S_share ==
    <<"s", "h", "a", "r", "e">>

S_figma_query ==
    <<"f", "i", "g", "m", "a", "_", "q", "u", "e", "r", "y">>

S_Windows ==
    <<"W", "i", "n", "d", "o", "w", "s">>

R_Linux ==
    <<"L", "i", "n", "u", "x">>

R_Darwin ==
    <<"D", "a", "r", "w", "i", "n">>

R_WINDOWS ==
    <<"W", "I", "N", "D", "O", "W", "S">>

R_plan9 ==
    <<"p", "l", "a", "n", "9">>

R_linux2 ==
    <<"l", "i", "n", "u", "x", "2">>

R_AMD64 ==
    <<"A", "M", "D", "6", "4">>

R_ARM64 ==
    <<"A", "R", "M", "6", "4">>

R_i386 ==
    <<"i", "3", "8", "6">>

R_arm64e ==
    <<"a", "r", "m", "6", "4", "e">>

S_lib ==
    <<"l", "i", "b">>

S_cli_py ==
    <<"c", "l", "i", ".", "p", "y">>

S_usr ==
    <<"u", "s", "r">>

S_slash ==
    <<"/">>

A_prog ==
    <<"f", "q">>

A_version ==
    <<"-", "-", "v", "e", "r", "s", "i", "o", "n">>

A_query ==
    <<"q">>

E_PATH ==
    <<"P", "A", "T", "H">>

E_usrbin ==
    <<"/", "b", "i", "n">>

E_TOKEN ==
    <<"T", "O", "K", "E", "N">>

E_secret ==
    <<"x">>

N_linux_amd64 ==
    <<"f", "i", "g", "m", "a", "-", "q", "u", "e", "r", "y", "-", "l", "i", "n", "u", "x", "-", "a", "m", "d", "6", "4">>

N_linux_arm64 ==
    <<"f", "i", "g", "m", "a", "-", "q", "u", "e", "r", "y", "-", "l", "i", "n", "u", "x", "-", "a", "r", "m", "6", "4">>

N_darwin_amd64 ==
    <<"f", "i", "g", "m", "a", "-", "q", "u", "e", "r", "y", "-", "d", "a", "r", "w", "i", "n", "-", "a", "m", "d", "6", "4">>

N_darwin_arm64 ==
    <<"f", "i", "g", "m", "a", "-", "q", "u", "e", "r", "y", "-", "d", "a", "r", "w", "i", "n", "-", "a", "r", "m", "6", "4">>

N_windows_amd64_exe ==
    <<"f", "i", "g", "m", "a", "-", "q", "u", "e", "r", "y", "-", "w", "i", "n", "d", "o", "w", "s", "-", "a", "m", "d", "6", "4", ".", "e", "x", "e">>

N_windows_arm64_exe ==
    <<"f", "i", "g", "m", "a", "-", "q", "u", "e", "r", "y", "-", "w", "i", "n", "d", "o", "w", "s", "-", "a", "r", "m", "6", "4", ".", "e", "x", "e">>

N_windows_amd64 ==
    <<"f", "i", "g", "m", "a", "-", "q", "u", "e", "r", "y", "-", "w", "i", "n", "d", "o", "w", "s", "-", "a", "m", "d", "6", "4">>

UpperLetters ==
    <<"A", "B", "C", "D", "E", "F", "G", "H", "I", "J", "K", "L", "M", "N", "O", "P", "Q", "R", "S", "T", "U", "V", "W", "X", "Y", "Z">>

LowerLetters ==
    <<"a", "b", "c", "d", "e", "f", "g", "h", "i", "j", "k", "l", "m", "n", "o", "p", "q", "r", "s", "t", "u", "v", "w", "x", "y", "z">>

\* ------------------------------------------------------ pure functions
\* str.lower() on one ASCII character
lower_char(c) ==
    IF \E i \in 1..26 : UpperLetters[i] = c
    THEN LowerLetters[CHOOSE i \in 1..26 : UpperLetters[i] = c]
    ELSE c

\* faulty variant of lower: the case of the host's strings is kept
lower_keeps_case(s) ==
    s

\* str.lower(), lines 12-13
lower(s) ==
    [i \in 1..Len(s) |-> lower_char(s[i])]

\* marks "no value" for a string-valued local
Unset ==
    <<>>

\* lines 16-23: the operating-system table; Unset when the else branch raises
os_name_of(system) ==
    IF system = S_darwin THEN S_darwin
    ELSE IF system = S_linux THEN S_linux
    ELSE IF system = S_windows THEN S_windows
    ELSE Unset

\* lines 26-31: the architecture table; Unset when the else branch raises
arch_of(machine) ==
    IF machine \in {S_x86_64, S_amd64} THEN S_amd64
    ELSE IF machine \in {S_arm64, S_aarch64} THEN S_arm64
    ELSE Unset

\* faulty variant of binary_name_of: the suffix is never appended
binary_name_no_suffix(system, os_name_v, arch_v) ==
    S_prefix \o os_name_v \o S_dash \o arch_v

\* lines 33-37: the file name of the binary
binary_name_of(system, os_name_v, arch_v) ==
    LET base == S_prefix \o os_name_v \o S_dash \o arch_v
    IN  IF system = S_windows THEN base \o S_exe ELSE base

NoExc ==
    [type |-> "none", fmt |-> "", args |-> <<>>]

\* line 23
UnsupportedOS(system) ==
    [type |-> "RuntimeError", fmt |-> "Unsupported operating system: {0}",
     args |-> <<system>>]

\* line 31
UnsupportedArch(machine) ==
    [type |-> "RuntimeError", fmt |-> "Unsupported architecture: {0}",
     args |-> <<machine>>]

\* faulty variant of BinaryNotFound: the message carries the folded strings
BinaryNotFound_folded(sysraw, machraw, name) ==
    [type |-> "FileNotFoundError",
     fmt |-> "figma-query binary not found for {0}/{1}. Expected: {2}",
     args |-> <<lower(sysraw), lower(machraw), name>>]

\* lines 62-65
BinaryNotFound(sysraw, machraw, name) ==
    [type |-> "FileNotFoundError",
     fmt |-> "figma-query binary not found for {0}/{1}. Expected: {2}",
     args |-> <<sysraw, machraw, name>>]

\* an OSError escaping os.chmod or subprocess.run
OSErrorOf(call) ==
    [type |-> "OSError", fmt |-> call, args |-> <<>>]

\* lines 10-37 as a function of the two host-reported strings
platform_binary_name(sysraw, machraw) ==
    LET system == lower(sysraw)
        machine == lower(machraw)
        o == os_name_of(system)
        a == arch_of(machine)
    IN  IF o = Unset
        THEN [ok |-> FALSE, os_name |-> Unset, arch |-> Unset,
              name |-> Unset, exc |-> UnsupportedOS(system)]
        ELSE IF a = Unset
        THEN [ok |-> FALSE, os_name |-> o, arch |-> Unset,
              name |-> Unset, exc |-> UnsupportedArch(machine)]
        ELSE [ok |-> TRUE, os_name |-> o, arch |-> a,
              name |-> binary_name_of(system, o, a), exc |-> NoExc]

\* pathlib: Path.parent
parent(p) ==
    SubSeq(p, 1, Len(p) - 1)

\* pathlib: the / operator
Div(p, c) ==
    Append(p, c)

\* str(Path): the components joined with "/"
RECURSIVE str_path(_)
str_path(p) ==
    IF Len(p) = 0 THEN <<>>
    ELSE IF Len(p) = 1 THEN p[1]
    ELSE p[1] \o S_slash \o str_path(Tail(p))

\* Path(__file__)
ThisFile ==
    <<S_lib, S_figma_query, S_cli_py>>

\* line 45
package_dir ==
    parent(ThisFile)

\* sys.prefix
sys_prefix ==
    <<S_usr>>

\* line 47: the path tested before the loop
first_path(name) ==
    Div(Div(package_dir, S_bin), name)

\* faulty variant of search_paths: the last two candidates change places
search_paths_swapped(name) ==
    << Div(Div(package_dir, S_bin), name),
       Div(Div(Div(Div(sys_prefix, S_share), S_figma_query), S_bin), name),
       Div(Div(parent(package_dir), S_bin), name) >>

\* lines 54-58: the list the for loop walks
search_paths(name) ==
    << Div(Div(package_dir, S_bin), name),
       Div(Div(parent(package_dir), S_bin), name),
       Div(Div(Div(Div(sys_prefix, S_share), S_figma_query), S_bin), name) >>

\* line 78: the mode passed to os.chmod (0o755)
ExecMode ==
    493

\* mode of a file the installation left non-executable (0o644)
PlainMode ==
    420

\* line 77: the test guarding os.chmod
needs_chmod(sysraw) ==
    sysraw # S_Windows

\* faulty variant of child_argv: the launcher's own name is forwarded too
child_argv_with_prog(path, argv) ==
    <<str_path(path)>> \o argv

\* line 82: the argument vector handed to subprocess.run
child_argv(path, argv) ==
    <<str_path(path)>> \o Tail(argv)

\* line 83: the environment handed to subprocess.run
child_env(environ) ==
    environ

\* subprocess: returncode of a finished child (negative signal number on POSIX)
returncode_of(st) ==
    IF st.kind = "exit" THEN st.code ELSE 0 - st.sig

\* line 90: sys.exit(n) as the 8-bit status the parent of the launcher sees
exit_status_of(n) ==
    n % 256

\* ------------------------------------------------------------- inputs
\* values platform.system() is drawn from
Systems ==
    {R_Linux, S_linux, R_Darwin, S_Windows, R_WINDOWS, R_plan9, R_linux2}

\* values platform.machine() is drawn from
Machines ==
    {S_x86_64, R_AMD64, S_arm64, S_aarch64, R_ARM64, R_i386, R_arm64e}

ArgVals ==
    {A_version, A_query}

RECURSIVE SeqsUpTo(_, _)
SeqsUpTo(S, n) ==
    IF n = 0 THEN {<<>>}
    ELSE LET prev == SeqsUpTo(S, n - 1)
         IN  prev \cup {Append(q, x) : q \in {r \in prev : Len(r) = n - 1}, x \in S}

\* sys.argv: the program name followed by the received arguments
Argvs ==
    {<<A_prog>> \o a : a \in SeqsUpTo(ArgVals, MaxArgs)}

\* os.environ: a set of (name, value) pairs
Environs ==
    { {<<E_PATH, E_usrbin>>},
      {<<E_PATH, E_usrbin>>, <<E_TOKEN, E_secret>>} }

AllNames ==
    {N_linux_amd64, N_linux_arm64, N_darwin_amd64, N_darwin_arm64,
     N_windows_amd64_exe, N_windows_arm64_exe}

\* what the installation put into a bin directory: binaries for some of the
\* platforms, and one windows binary that lost its suffix
Installed ==
    {N_linux_amd64, N_darwin_amd64, N_darwin_arm64, N_windows_arm64_exe,
     N_windows_amd64}

\* the three bin directories of lines 55-57
BinDirs ==
    { Div(package_dir, S_bin),
      Div(parent(package_dir), S_bin),
      Div(Div(Div(sys_prefix, S_share), S_figma_query), S_bin) }

ExtraExit ==
    {42, 255}

ChildStatuses ==
    {[kind |-> "exit", code |-> c, sig |-> 0] : c \in (0..MaxExit) \cup ExtraExit}
    \cup {[kind |-> "signal", code |-> 0, sig |-> s] : s \in 1..MaxSig}

NoStatus ==
    [kind |-> "none", code |-> 0, sig |-> 0]

\* -------------------------------------------------------------- state
VARIABLES
    platform_system,   \* platform.system(), as the host reports it
    platform_machine,  \* platform.machine(), as the host reports it
    sys_argv,          \* sys.argv
    os_environ,        \* os.environ
    fs,                \* the paths that exist
    filemode,          \* the mode of every existing path
    fs_owned,          \* whether the caller may chmod the installed files
    pc,                \* position of the launcher
    os_name,           \* local of get_platform_binary_name
    arch,              \* local of get_platform_binary_name
    binary_name,       \* local of get_binary_path
    binary_path,       \* local of main
    idx,               \* position of the for loop of get_binary_path
    exc,               \* the exception in flight
    stderr,            \* what was written to sys.stderr
    probed,            \* the paths exists() was called on, in order
    chmod_calls,       \* the os.chmod calls made, in order
    spawned,           \* the children created, in order
    child,             \* "none", "running" or "terminated"
    child_status,      \* how the child ended
    ret,               \* the value main returns
    exit_status        \* the status the launcher process ends with

vars ==
    <<platform_system, platform_machine, sys_argv, os_environ, fs, filemode,
      fs_owned, pc, os_name, arch, binary_name, binary_path, idx, exc,
      stderr, probed, chmod_calls, spawned, child, child_status, ret,
      exit_status>>

host ==
    <<platform_system, platform_machine, sys_argv, os_environ, fs_owned>>

NoRet ==
    -1000

Init ==
    /\ platform_system \in Systems
    /\ platform_machine \in Machines
    /\ sys_argv \in Argvs
    /\ os_environ \in Environs
    /\ \E D \in SUBSET BinDirs, m \in {PlainMode, ExecMode} :
          /\ fs = {Div(d, n) : d \in D, n \in Installed}
          /\ filemode = [p \in fs |-> m]
    /\ fs_owned \in BOOLEAN
    /\ pc = "identify"
    /\ os_name = Unset
    /\ arch = Unset
    /\ binary_name = Unset
    /\ binary_path = <<>>
    /\ idx = 0
    /\ exc = NoExc
    /\ stderr = <<>>
    /\ probed = <<>>
    /\ chmod_calls = <<>>
    /\ spawned = <<>>
    /\ child = "none"
    /\ child_status = NoStatus
    /\ ret = NoRet
    /\ exit_status = NoRet

\* Path.exists()
exists(p) ==
    p \in fs

\* lines 42, 10-37: main calls get_binary_path, which first names the binary
get_platform_binary_name ==
    /\ pc = "identify"
    /\ LET r == platform_binary_name(platform_system, platform_machine)
       IN  /\ os_name' = r.os_name
           /\ arch' = r.arch
           /\ binary_name' = r.name
           /\ exc' = r.exc
           /\ pc' = IF r.ok THEN "exists_first" ELSE "except"
    /\ UNCHANGED <<host, fs, filemode, binary_path, idx, stderr, probed,
                   chmod_calls, spawned, child, child_status, ret, exit_status>>

\* lines 45-50: the package bin directory is tested first
exists_first ==
    /\ pc = "exists_first"
    /\ LET p == first_path(binary_name)
       IN  /\ probed' = Append(probed, p)
           /\ IF exists(p)
              THEN /\ binary_path' = p
                   /\ pc' = "ensure_executable"
                   /\ idx' = idx
              ELSE /\ binary_path' = binary_path
                   /\ pc' = "search"
                   /\ idx' = 1
    /\ UNCHANGED <<host, fs, filemode, os_name, arch, binary_name, exc, stderr,
                   chmod_calls, spawned, child, child_status, ret, exit_status>>

\* lines 54-60: one iteration of the for loop
search_loop ==
    /\ pc = "search"
    /\ LET paths == search_paths(binary_name)
           p == paths[idx]
       IN  /\ probed' = Append(probed, p)
           /\ IF exists(p)
              THEN /\ binary_path' = p
                   /\ pc' = "ensure_executable"
                   /\ idx' = idx
              ELSE /\ binary_path' = binary_path
                   /\ pc' = IF idx < Len(paths) THEN "search" ELSE "not_found"
                   /\ idx' = IF idx < Len(paths) THEN idx + 1 ELSE idx
    /\ UNCHANGED <<host, fs, filemode, os_name, arch, binary_name, exc, stderr,
                   chmod_calls, spawned, child, child_status, ret, exit_status>>

\* lines 62-65: the loop ended without a hit
raise_not_found ==
    /\ pc = "not_found"
    /\ exc' = BinaryNotFound(platform_system, platform_machine, binary_name)
    /\ pc' = "except"
    /\ UNCHANGED <<host, fs, filemode, os_name, arch, binary_name, binary_path,
                   idx, stderr, probed, chmod_calls, spawned, child,
                   child_status, ret, exit_status>>

\* faulty variant of except_handler: the failure is reported but main returns 0
except_handler_returns_0 ==
    /\ pc = "except"
    /\ stderr' = Append(stderr, [prefix |-> "Error: ", exc |-> exc])
    /\ ret' = 0
    /\ pc' = "sys_exit"
    /\ UNCHANGED <<host, fs, filemode, os_name, arch, binary_name, binary_path,
                   idx, exc, probed, chmod_calls, spawned, child, child_status,
                   exit_status>>

\* lines 72-74: RuntimeError and FileNotFoundError are reported, main returns 1
except_handler ==
    /\ pc = "except"
    /\ stderr' = Append(stderr, [prefix |-> "Error: ", exc |-> exc])
    /\ ret' = 1
    /\ pc' = "sys_exit"
    /\ UNCHANGED <<host, fs, filemode, os_name, arch, binary_name, binary_path,
                   idx, exc, probed, chmod_calls, spawned, child, child_status,
                   exit_status>>

\* lines 77-78: os.chmod(binary_path, 0o755) unless platform.system() is
\* "Windows"; os.chmod raises PermissionError when the caller does not own
\* the file, and nothing catches it
ensure_executable ==
    /\ pc = "ensure_executable"
    /\ IF needs_chmod(platform_system)
       THEN /\ chmod_calls' = Append(chmod_calls,
                                     [path |-> binary_path, mode |-> ExecMode])
            /\ IF fs_owned
               THEN /\ filemode' = [filemode EXCEPT ![binary_path] = ExecMode]
                    /\ exc' = exc
                    /\ pc' = "subprocess_run"
               ELSE /\ filemode' = filemode
                    /\ exc' = OSErrorOf("os.chmod")
                    /\ pc' = "uncaught"
       ELSE /\ chmod_calls' = chmod_calls
            /\ filemode' = filemode
            /\ exc' = exc
            /\ pc' = "subprocess_run"
    /\ UNCHANGED <<host, fs, os_name, arch, binary_name, binary_path, idx,
                   stderr, probed, spawned, child, child_status, ret,
                   exit_status>>

\* lines 81-84: subprocess.run creates the child, or raises OSError when the
\* file cannot be executed
subprocess_run ==
    /\ pc = "subprocess_run"
    /\ \E started \in BOOLEAN :
          IF started
          THEN /\ spawned' = Append(spawned,
                      [argv |-> child_argv(binary_path, sys_argv),
                       env |-> child_env(os_environ)])
               /\ child' = "running"
               /\ exc' = exc
               /\ pc' = "wait"
          ELSE /\ spawned' = spawned
               /\ child' = child
               /\ exc' = OSErrorOf("subprocess.run")
               /\ pc' = "uncaught"
    /\ UNCHANGED <<host, fs, filemode, os_name, arch, binary_name, binary_path,
                   idx, stderr, probed, chmod_calls, child_status, ret,
                   exit_status>>

\* the child ends, by exiting or by a signal; this is the child's step
child_terminates ==
    /\ child = "running"
    /\ \E st \in ChildStatuses :
          child_status' = st
    /\ child' = "terminated"
    /\ UNCHANGED <<host, fs, filemode, pc, os_name, arch, binary_name,
                   binary_path, idx, exc, stderr, probed, chmod_calls, spawned,
                   ret, exit_status>>

\* faulty variant of wait_and_return: the wait gives up on a running child
wait_with_timeout ==
    /\ pc = "wait"
    /\ ret' = returncode_of(child_status)
    /\ pc' = "sys_exit"
    /\ UNCHANGED <<host, fs, filemode, os_name, arch, binary_name, binary_path,
                   idx, exc, stderr, probed, chmod_calls, spawned, child,
                   child_status, exit_status>>

\* lines 81, 86: subprocess.run returns once the child has ended (no timeout
\* is passed), and main returns result.returncode
wait_and_return ==
    /\ pc = "wait"
    /\ child = "terminated"
    /\ ret' = returncode_of(child_status)
    /\ pc' = "sys_exit"
    /\ UNCHANGED <<host, fs, filemode, os_name, arch, binary_name, binary_path,
                   idx, exc, stderr, probed, chmod_calls, spawned, child,
                   child_status, exit_status>>

\* line 90: sys.exit(main())
sys_exit ==
    /\ pc = "sys_exit"
    /\ exit_status' = exit_status_of(ret)
    /\ pc' = "done"
    /\ UNCHANGED <<host, fs, filemode, os_name, arch, binary_name, binary_path,
                   idx, exc, stderr, probed, chmod_calls, spawned, child,
                   child_status, ret>>

\* an exception that leaves main: the interpreter prints the traceback and
\* the process ends with status 1
uncaught_exception ==
    /\ pc = "uncaught"
    /\ stderr' = Append(stderr, [prefix |-> "Traceback", exc |-> exc])
    /\ exit_status' = 1
    /\ pc' = "done"
    /\ UNCHANGED <<host, fs, filemode, os_name, arch, binary_name, binary_path,
                   idx, exc, probed, chmod_calls, spawned, child, child_status,
                   ret>>

\* the steps of the launcher itself
LauncherNext ==
    \/ get_platform_binary_name
    \/ exists_first
    \/ search_loop
    \/ raise_not_found
    \/ except_handler
    \/ ensure_executable
    \/ subprocess_run
    \/ wait_and_return
    \/ sys_exit
    \/ uncaught_exception

Next ==
    \/ LauncherNext
    \/ child_terminates

Spec ==
    Init /\ [][Next]_vars

\* the interpreter keeps running the launcher; the child is not obliged to end
LiveSpec ==
    Init /\ [][Next]_vars /\ WF_vars(LauncherNext)

\* ============================================================ properties
\* a and b are the same string up to the case of ASCII letters
SameIgnoringCase(a, b) ==
    /\ Len(a) = Len(b)
    /\ \A i \in 1..Len(a) :
          \/ a[i] = b[i]
          \/ \E k \in 1..26 : {a[i], b[i]} = {UpperLetters[k], LowerLetters[k]}

IsOneOf(s, names) ==
    \E n \in names : SameIgnoringCase(s, n)

KnownOS ==
    {S_darwin, S_linux, S_windows}

KnownMachine ==
    {S_x86_64, S_amd64, S_arm64, S_aarch64}

\* get_platform_binary_name has returned or raised
Identified ==
    pc # "identify"

IdentSucceeded ==
    Identified /\ binary_name # Unset

IdentFailed ==
    Identified /\ binary_name = Unset

FailedWithUnsupportedOS ==
    /\ IdentFailed
    /\ exc.type = "RuntimeError"
    /\ exc.fmt = "Unsupported operating system: {0}"

FailedWithUnsupportedArch ==
    /\ IdentFailed
    /\ exc.type = "RuntimeError"
    /\ exc.fmt = "Unsupported architecture: {0}"

\* success exactly on the supported pairs, with the expected normalized pair
IdentSuccessCases ==
    /\ IdentSucceeded <=> (/\ IsOneOf(platform_system, KnownOS)
                           /\ IsOneOf(platform_machine, KnownMachine))
    /\ IdentSucceeded =>
          /\ SameIgnoringCase(platform_system, os_name)
          /\ os_name \in KnownOS
          /\ IsOneOf(platform_machine, {S_x86_64, S_amd64}) => arch = S_amd64
          /\ IsOneOf(platform_machine, {S_arm64, S_aarch64}) => arch = S_arm64

\* C1 as stated: identification succeeds exactly on the supported pairs and
\* yields the expected normalized pair; every other OS string fails with the
\* unsupported-operating-system error and every other machine string fails
\* with the unsupported-architecture error.
C1_AsStated ==
    Identified =>
       /\ IdentSuccessCases
       /\ ~IsOneOf(platform_system, KnownOS) => FailedWithUnsupportedOS
       /\ ~IsOneOf(platform_machine, KnownMachine) => FailedWithUnsupportedArch

\* C1 amended: identification succeeds exactly on the supported pairs and
\* yields the expected normalized pair; every other OS string fails with the
\* unsupported-operating-system error whatever the machine string is, and
\* every other machine string fails with the unsupported-architecture error
\* when the OS string is a supported one.
C1_Identification ==
    Identified =>
       /\ IdentSuccessCases
       /\ ~IsOneOf(platform_system, KnownOS) => FailedWithUnsupportedOS
       /\ (/\ IsOneOf(platform_system, KnownOS)
           /\ ~IsOneOf(platform_machine, KnownMachine))
             => FailedWithUnsupportedArch

\* a host reporting "Darwin"/"ARM64" was identified as darwin/arm64
C1_Witness ==
    /\ pc = "exists_first"
    /\ platform_system = R_Darwin
    /\ platform_machine = R_ARM64
    /\ os_name = S_darwin
    /\ arch = S_arm64

EndsWith(s, suffix) ==
    /\ Len(s) >= Len(suffix)
    /\ SubSeq(s, Len(s) - Len(suffix) + 1, Len(s)) = suffix

\* C2: the binary name is a function of the normalized pair alone, namely
\* figma-query-{os}-{arch} with .exe appended exactly when os is windows;
\* every windows name ends in .exe and no darwin or linux name does.
C2_BinaryName ==
    IdentSucceeded =>
       /\ binary_name = S_prefix \o os_name \o S_dash \o arch
                          \o (IF os_name = S_windows THEN S_exe ELSE <<>>)
       /\ EndsWith(binary_name, S_exe) <=> (os_name = S_windows)
       /\ binary_name \in AllNames

\* a host reporting "WINDOWS"/"ARM64" got figma-query-windows-arm64.exe
C2_Witness ==
    /\ platform_system = R_WINDOWS
    /\ platform_machine = R_ARM64
    /\ binary_name = N_windows_arm64_exe

\* the three candidate paths for a name, in the order (a), (b), (c)
Candidates(name) ==
    << <<S_lib, S_figma_query, S_bin, name>>,
       <<S_lib, S_bin, name>>,
       <<S_usr, S_share, S_figma_query, S_bin, name>> >>

\* get_binary_path has returned or raised after a successful identification
Located ==
    /\ IdentSucceeded
    /\ pc \notin {"exists_first", "search"}

LocateSucceeded ==
    Located /\ binary_path # <<>>

LocateFailed ==
    Located /\ binary_path = <<>>

\* C3: get_binary_path returns the first candidate that exists, in the order
\* (a) bin next to the launcher, (b) bin one level up, (c) share/figma_query/bin
\* under the prefix, and tests no candidate after the one that matched.
C3_FirstExisting ==
    LET c == Candidates(binary_name)
    IN  /\ LocateSucceeded =>
              \E i \in 1..3 :
                 /\ binary_path = c[i]
                 /\ c[i] \in fs
                 /\ \A j \in 1..(i - 1) : c[j] \notin fs
                 /\ \A k \in 1..Len(probed) : \E j \in 1..i : probed[k] = c[j]
        /\ (Located /\ \E i \in 1..3 : c[i] \in fs) => LocateSucceeded

\* only the third candidate exists and it is the one returned
C3_Witness ==
    LET c == Candidates(binary_name)
    IN  /\ LocateSucceeded
        /\ c[1] \notin fs
        /\ c[2] \notin fs
        /\ binary_path = c[3]

\* C4: when identification succeeds and no candidate exists, get_binary_path
\* fails with the binary-not-found error, which carries the name that was
\* sought and the OS and machine strings as the host reported them.
C4_NotFound ==
    LET c == Candidates(binary_name)
    IN  (Located /\ \A i \in 1..3 : c[i] \notin fs) =>
           /\ LocateFailed
           /\ pc \in {"not_found", "except", "sys_exit", "done"}
           /\ \A k \in 1..Len(probed) : probed[k][Len(probed[k])] = binary_name
           /\ pc # "not_found" =>
                 /\ exc.type = "FileNotFoundError"
                 /\ exc.args = <<platform_system, platform_machine, binary_name>>

\* a "Linux"/"aarch64" host whose bin directories hold other binaries only
C4_Witness ==
    /\ pc = "done"
    /\ exc.type = "FileNotFoundError"
    /\ platform_system = R_Linux
    /\ platform_machine = S_aarch64
    /\ fs # {}
    /\ exc.args[3] = N_linux_arm64

\* C5: when identification or location fails, the launcher writes one
\* diagnostic line to the error stream and exits with status 1, having changed
\* no file mode and spawned no child; when identification fails, no candidate
\* path is tested for existence.
C5_FailureAborts ==
    /\ (IdentFailed \/ LocateFailed) =>
          /\ chmod_calls = <<>>
          /\ \A p \in fs, q \in fs : filemode[p] = filemode[q]
          /\ spawned = <<>>
          /\ child = "none"
          /\ pc \in {"not_found", "except", "sys_exit", "done"}
          /\ pc \in {"sys_exit", "done"} =>
                /\ Len(stderr) = 1
                /\ stderr[1].prefix = "Error: "
                /\ stderr[1].exc.type \in {"RuntimeError", "FileNotFoundError"}
          /\ pc = "done" => exit_status = 1
    /\ IdentFailed => probed = <<>>

\* a host reporting "plan9" ended with status 1 and nothing was searched
C5_Witness ==
    /\ pc = "done"
    /\ platform_system = R_plan9
    /\ exit_status = 1
    /\ Len(stderr) = 1
    /\ probed = <<>>

ChildExitedWith(n) ==
    /\ child = "terminated"
    /\ child_status.kind = "exit"
    /\ child_status.code = n

\* C6: whenever a child was spawned, the launcher's exit status is the
\* child's exit status, and non-zero when a signal ended the child; the
\* launcher ends with status 1 for a cause of its own only when identification
\* or location failed.
C6_ExitStatus ==
    pc = "done" =>
       /\ spawned # <<>> =>
             /\ child = "terminated"
             /\ child_status.kind = "exit" => exit_status = child_status.code
             /\ child_status.kind = "signal" => exit_status # 0
       /\ (exit_status = 1 /\ ~ChildExitedWith(1)) =>
             (IdentFailed \/ LocateFailed)

\* C7: the child's argument vector is the resolved path followed by the
\* launcher's arguments in their order, without the launcher's own name, and
\* its environment is the launcher's, unmodified.
C7_ArgvAndEnv ==
    \A n \in 1..Len(spawned) :
       LET a == spawned[n].argv
       IN  /\ LocateSucceeded
           /\ \/ (/\ binary_path = Candidates(binary_name)[1]
                  /\ a[1] = <<"l", "i", "b", "/", "f", "i", "g", "m", "a", "_",
                              "q", "u", "e", "r", "y", "/", "b", "i", "n", "/">>
                             \o binary_name)
              \/ (/\ binary_path = Candidates(binary_name)[2]
                  /\ a[1] = <<"l", "i", "b", "/", "b", "i", "n", "/">>
                             \o binary_name)
              \/ (/\ binary_path = Candidates(binary_name)[3]
                  /\ a[1] = <<"u", "s", "r", "/", "s", "h", "a", "r", "e", "/",
                              "f", "i", "g", "m", "a", "_", "q", "u", "e", "r",
                              "y", "/", "b", "i", "n", "/">>
                             \o binary_name)
           /\ Len(a) = Len(sys_argv)
           /\ \A i \in 2..Len(a) : a[i] = sys_argv[i]
           /\ spawned[n].env = os_environ

\* the child got two different arguments in their order and both variables
C7_Witness ==
    /\ Len(spawned) = 1
    /\ sys_argv = <<A_prog, A_query, A_version>>
    /\ Len(spawned[1].argv) = 3
    /\ spawned[1].argv[2] = A_query
    /\ spawned[1].argv[3] = A_version
    /\ <<E_TOKEN, E_secret>> \in spawned[1].env

\* the launcher is past the permission step of main
ReachedDelegation ==
    /\ LocateSucceeded
    /\ pc # "ensure_executable"

\* C8: in every run that reaches delegation, os.chmod(binary, 0755) is called
\* before the spawn exactly when the host is not Windows: it is skipped on
\* every host whose OS string is windows in any case of letters, and made,
\* on the resolved binary only, on every darwin or linux host.
C8_ChmodUnlessWindows ==
    /\ ReachedDelegation =>
          IF SameIgnoringCase(platform_system, S_windows)
          THEN chmod_calls = <<>>
          ELSE chmod_calls = <<[path |-> binary_path, mode |-> ExecMode]>>
    /\ ~ReachedDelegation => (chmod_calls = <<>> /\ spawned = <<>>)

\* C9: a failing os.chmod does not stop the launcher: the binary is still
\* spawned and the launcher still ends with the child's exit status.
C9_ChmodFailureTolerated ==
    (pc = "done" /\ chmod_calls # <<>> /\ ~fs_owned) =>
       /\ Len(spawned) = 1
       /\ child = "terminated"
       /\ exit_status = exit_status_of(returncode_of(child_status))

\* how far the launcher is along identify, locate, chmod, spawn, wait, exit
Position ==
    CASE pc = "identify" -> 0
      [] pc = "exists_first" -> 1
      [] pc = "search" -> 1 + idx
      [] pc = "not_found" -> 5
      [] pc = "ensure_executable" -> 6
      [] pc = "subprocess_run" -> 7
      [] pc = "wait" -> 8
      [] pc = "except" -> 9
      [] pc = "uncaught" -> 9
      [] pc = "sys_exit" -> 10
      [] pc = "done" -> 11

\* C10: the launcher is one linear pipeline: at most one child is created,
\* the launcher only moves forward, it does not end between the spawn and the
\* child's termination (there is no timeout), and once the child has
\* terminated the launcher eventually exits.
C10_LinearPipeline ==
    /\ [](Len(spawned) <= 1 /\ Len(chmod_calls) <= 1)
    /\ [][/\ Position' >= Position
          /\ Position' = Position => (pc' = pc /\ idx' = idx)
          /\ Len(spawned') >= Len(spawned)]_vars
    /\ []((spawned # <<>> /\ child # "terminated") => pc = "wait")
    /\ (child = "terminated") ~> (pc = "done")

\* the child was spawned, ended, and the launcher exited after it
C10_Witness ==
    /\ pc = "done"
    /\ Len(spawned) = 1
    /\ child = "terminated"
    /\ exit_status = 42

====
